---- MODULE Spec2Model ----
(***************************************************************************)
(* Smart Money (src/app.py): a personal finance tracker on three SQLite    *)
(* tables (incomes, expenses, targets), a handful of aggregation functions *)
(* over them and a Streamlit page per menu entry.                          *)
(*                                                                         *)
(* Modelling conventions                                                   *)
(*  - a table is the set of its rows, a DataFrame the sequence of its rows;*)
(*  - a TEXT date "YYYY-MM-DD" is the tuple <<y, m, d>> of its fields, a    *)
(*    "YYYY-MM" key the tuple <<y, m>>; tuples are compared field by field *)
(*    from the left, as the zero-padded strings are compared;              *)
(*  - amounts are whole numbers; a Python float that is the result of a    *)
(*    division is the exact fraction [n, d] in lowest terms (d > 0), so    *)
(*    the rounding of IEEE doubles is not modelled.                        *)
(***************************************************************************)
EXTENDS Integers, Sequences, FiniteSets, TLC

VARIABLES incomes, expenses, targets, sqlite_sequence, now, assigned, live, last

vars == <<incomes, expenses, targets, sqlite_sequence, now, assigned, live, last>>
store == <<incomes, expenses, targets>>

\* ---------------------------------------------------------------- bounds
\* Rows inserted over the whole history, the three tables together.
MaxInserts == 3

Tables == {"incomes", "expenses", "targets"}

\* ---------------------------------------------------------------- inputs
Date(y, m, d) == [year |-> y, month |-> m, day |-> d]

\* st.date_input values (date objects)
FormDates == {Date(2023, 12, 20), Date(2024, 1, 10)}
\* st.number_input values, min_value=0.0
IncomeAmounts == {0, 40, 100}
ExpenseAmounts == {0, 60}
TargetAmounts == {0, 60}
Sources == {"Gaji"}
Categories == {"Makan"}
\* st.text_input values of the target name, as character sequences
TargetNames == {<<>>, <<" ">>, <<"R", "p">>}
\* st.slider("Threshold saving rate (%)", 5, 50, 10)
Thresholds == {10, 50}
\* st.slider("Kurangi pengeluaran sebesar (%)", 0, 50, 10)
Reductions == {0, 10, 50}

\* Arguments of a direct call of add_income / add_expense / add_target: a date
\* object, or a str that to_iso hands on as it is.
NotADate == <<0, 0, 0>>
AsDate(d) == [isdate |-> TRUE, date |-> d]
AsStr(text) == [isdate |-> FALSE, text |-> text]
\* the (amount, the_date) arguments of add_income and of add_expense
CallIncomeArgs == {[amount |-> 100, the_date |-> AsDate(Date(2023, 12, 20))],
                   [amount |-> 40, the_date |-> AsDate(Date(2024, 1, 10))],
                   [amount |-> 100, the_date |-> AsDate(Date(2024, 2, 15))],
                   [amount |-> 40, the_date |-> AsStr(NotADate)]}
CallExpenseArgs == {[amount |-> 60, the_date |-> AsDate(Date(2023, 12, 20))],
                    [amount |-> 60, the_date |-> AsDate(Date(2024, 1, 10))],
                    [amount |-> 60, the_date |-> AsDate(Date(2024, 2, 15))],
                    [amount |-> 60, the_date |-> AsStr(NotADate)]}
\* month_year arguments of monthly_summary; <<>> is None (or "", as falsy)
NoMonth == <<>>
MonthArgs == {NoMonth, <<2023, 12>>, <<2024, 1>>}

\* ------------------------------------------------------------ arithmetic
Abs(i) == IF i < 0 THEN -i ELSE i

RECURSIVE GCD(_, _)
GCD(a, b) == IF b = 0 THEN a ELSE GCD(b, a % b)

\* the fraction n/d (d # 0) in lowest terms with a positive denominator
Rat(n, d) ==
    LET g == GCD(Abs(n), Abs(d))
        s == IF d < 0 THEN -1 ELSE 1
    IN [n |-> s * (n \div g), d |-> s * (d \div g)]

RatInt(i) == [n |-> i, d |-> 1]
RatSub(a, b) == Rat(a.n * b.d - b.n * a.d, a.d * b.d)
RatMul(a, b) == Rat(a.n * b.n, a.d * b.d)
RatDiv(a, b) == Rat(a.n * b.d, a.d * b.n)
RatLE(a, b) == a.n * b.d <= b.n * a.d
RatLT(a, b) == a.n * b.d < b.n * a.d
RatMax(a, b) == IF RatLT(a, b) THEN b ELSE a
RatMin(a, b) == IF RatLT(b, a) THEN b ELSE a

SetMax(S) == CHOOSE x \in S : \A y \in S : y <= x

\* ----------------------------------------------------------------- dates
\* date.isoformat(): "YYYY-MM-DD"
isoformat(d) == <<d.year, d.month, d.day>>

\* to_iso (src/app.py:51)
to_iso(d) == IF d.isdate THEN isoformat(d.date) ELSE d.text

NaT == [nat |-> TRUE, year |-> 0, month |-> 0, day |-> 0]

DaysInMonth(y, m) ==
    IF m \in {4, 6, 9, 11} THEN 30
    ELSE IF m = 2 THEN (IF y % 4 = 0 /\ (y % 100 # 0 \/ y % 400 = 0) THEN 29 ELSE 28)
    ELSE 31

\* pd.to_datetime(text, errors='coerce'): a Timestamp, or NaT for a text that
\* is no calendar date
to_datetime(text) ==
    IF /\ Len(text) = 3
       /\ text[1] \in 1678..2261
       /\ text[2] \in 1..12
       /\ text[3] \in 1..DaysInMonth(text[1], text[2])
    THEN [nat |-> FALSE, year |-> text[1], month |-> text[2], day |-> text[3]]
    ELSE NaT

\* Timestamp.strftime('%Y-%m'); NaT gives NaN, which equals no string
NaN == <<-1>>
strftime_Ym(ts) == IF ts.nat THEN NaN ELSE <<ts.year, ts.month>>

\* Timestamp.to_period('M'): the month's ordinal since 1970-01
to_period_M(ts) == (ts.year - 1970) * 12 + (ts.month - 1)
\* the key of a yearly period, to_period('Y'): "YYYY"
period_str_year(ord) == <<1970 + (ord \div 12)>>

\* str(Period('M')): "YYYY-MM"
period_str(ord) == <<1970 + (ord \div 12), (ord % 12) + 1>>

\* str.strip() on a character sequence
RECURSIVE lstrip(_)
lstrip(s) == IF s # <<>> /\ Head(s) = " " THEN lstrip(Tail(s)) ELSE s
RECURSIVE rstrip(_)
rstrip(s) == IF s # <<>> /\ s[Len(s)] = " " THEN rstrip(SubSeq(s, 1, Len(s) - 1)) ELSE s
strip(s) == rstrip(lstrip(s))

\* string comparison of two keys of the same layout, field by field
RECURSIVE TextLess(_, _)
TextLess(a, b) ==
    IF a = <<>> THEN b # <<>>
    ELSE IF b = <<>> THEN FALSE
    ELSE IF Head(a) # Head(b) THEN Head(a) < Head(b)
    ELSE TextLess(Tail(a), Tail(b))

\* ---------------------------------------------------------------- tables
Ids(rows) == {r.id : r \in rows}

Table(t) == IF t = "incomes" THEN incomes ELSE IF t = "expenses" THEN expenses ELSE targets

TotalInserts == sqlite_sequence["incomes"] + sqlite_sequence["expenses"] + sqlite_sequence["targets"]

\* INTEGER PRIMARY KEY without AUTOINCREMENT: one more than the largest rowid in the table
RowidMaxPlusOne(rows, seq) == IF rows = {} THEN 1 ELSE SetMax(Ids(rows)) + 1

\* INTEGER PRIMARY KEY AUTOINCREMENT: one more than the largest rowid the table
\* ever held, which sqlite_sequence records
Autoincrement(rows, seq) == SetMax({seq} \cup Ids(rows)) + 1

\* dropping the WHERE clause
DeleteAllRows(rows, id) == {}

\* WHERE id<=? in place of WHERE id=?
DeleteUpToId(rows, id) == {r \in rows : r.id > id}

\* DELETE FROM <table> WHERE id=?
DeleteWhereId(rows, id) == {r \in rows : r.id # id}

\* ids typed into a delete box (min_value=0) or passed to delete_target: 0, the
\* ids the table has handed out, and one it has not
DeleteIds(t) == 0..(sqlite_sequence[t] + 1)

\* the rowid an INSERT INTO <table> gets
NewId(t) == Autoincrement(Table(t), sqlite_sequence[t])

\* what an INSERT leaves besides the row: sqlite_sequence, and the history of
\* the ids handed out and of those still held
Inserted(t, id) ==
    /\ sqlite_sequence' = [sqlite_sequence EXCEPT ![t] = id]
    /\ assigned' = [assigned EXCEPT ![t] = @ \cup {id}]
    /\ live' = [live EXCEPT ![t] = @ \cup {id}]

\* ORDER BY <col> DESC over the rows, the column compared as TEXT; rows of
\* equal key in rowid order
OrderByDesc(rows, col) ==
    LET RECURSIVE Build(_)
        Build(S) ==
            IF S = {} THEN <<>>
            ELSE LET r == CHOOSE x \in S : \A y \in S :
                              \/ TextLess(y[col], x[col])
                              \/ (y[col] = x[col] /\ x.id <= y.id)
                 IN <<r>> \o Build(S \ {r})
    IN Build(rows)

\* query_df: the rows in the order asked for, every column whose name holds
\* 'date' converted with errors='coerce' (the_date, target_date; not created_at)
query_df_entries(rows) ==
    LET s == OrderByDesc(rows, "the_date")
    IN [i \in 1..Len(s) |-> [s[i] EXCEPT !.the_date = to_datetime(@)]]

get_all_incomes == query_df_entries(incomes)
get_all_expenses == query_df_entries(expenses)

get_targets ==
    LET s == OrderByDesc(targets, "created_at")
    IN [i \in 1..Len(s) |-> [s[i] EXCEPT !.target_date = to_datetime(@)]]

\* -------------------------------------------------------- storage functions
add_income(amount, source, the_date) ==
    LET id == NewId("incomes")
    IN /\ incomes' = incomes \cup {[id |-> id, amount |-> amount, source |-> source,
                                    the_date |-> to_iso(the_date)]}
       /\ Inserted("incomes", id)
       /\ UNCHANGED <<expenses, targets, now>>

add_expense(amount, category, description, the_date) ==
    LET id == NewId("expenses")
    IN /\ expenses' = expenses \cup {[id |-> id, amount |-> amount, category |-> category,
                                      description |-> description,
                                      the_date |-> to_iso(the_date)]}
       /\ Inserted("expenses", id)
       /\ UNCHANGED <<incomes, targets, now>>

\* created_at is datetime.now().isoformat(), here the one-field text <<now>>;
\* the clock reads later at every call
add_target(name, amount, target_date) ==
    LET id == NewId("targets")
    IN /\ targets' = targets \cup {[id |-> id, name |-> name, target_amount |-> amount,
                                    target_date |-> to_iso(target_date),
                                    created_at |-> <<now>>]}
       /\ now' = now + 1
       /\ Inserted("targets", id)
       /\ UNCHANGED <<incomes, expenses>>

delete_target(target_id) ==
    /\ targets' = DeleteWhereId(targets, target_id)
    /\ live' = [live EXCEPT !["targets"] = @ \ {target_id}]
    /\ UNCHANGED <<incomes, expenses, sqlite_sequence, now, assigned>>

\* c.execute("DELETE FROM incomes WHERE id=?", (to_del,))
delete_income(to_del) ==
    /\ incomes' = DeleteWhereId(incomes, to_del)
    /\ live' = [live EXCEPT !["incomes"] = @ \ {to_del}]
    /\ UNCHANGED <<expenses, targets, sqlite_sequence, now, assigned>>

\* c.execute("DELETE FROM expenses WHERE id=?", (to_del_e,))
delete_expense(to_del_e) ==
    /\ expenses' = DeleteWhereId(expenses, to_del_e)
    /\ live' = [live EXCEPT !["expenses"] = @ \ {to_del_e}]
    /\ UNCHANGED <<incomes, targets, sqlite_sequence, now, assigned>>

\* ------------------------------------------------------------ business logic
RECURSIVE SumAmount(_)
SumAmount(df) == IF df = <<>> THEN 0 ELSE Head(df).amount + SumAmount(Tail(df))

\* clamping the rate at 0
SavingRateClamped(saved, total_in) ==
    IF total_in > 0 /\ saved > 0 THEN RatMul(Rat(saved, total_in), RatInt(100)) ELSE RatInt(0)

\* (saved / total_in * 100) if total_in > 0 else 0.0
SavingRate(saved, total_in) ==
    IF total_in > 0 THEN RatMul(Rat(saved, total_in), RatInt(100)) ELSE RatInt(0)

\* incomes[incomes['the_date'].dt.strftime('%Y-%m') == month_year]
InMonth(df, month_year) == SelectSeq(df, LAMBDA r : strftime_Ym(r.the_date) = month_year)

monthly_summary(month_year) ==
    LET inc == IF month_year # NoMonth THEN InMonth(get_all_incomes, month_year)
               ELSE get_all_incomes
        exp == IF month_year # NoMonth THEN InMonth(get_all_expenses, month_year)
               ELSE get_all_expenses
        total_in == IF inc # <<>> THEN SumAmount(inc) ELSE 0
        total_out == IF exp # <<>> THEN SumAmount(exp) ELSE 0
        saved == total_in - total_out
    IN [income |-> total_in, expense |-> total_out, saved |-> saved,
        saving_rate |-> SavingRate(saved, total_in)]

\* no clamping, no guard on the target amount
PercentUnclamped(total_saved, target_amount) ==
    IF target_amount # 0 THEN RatMul(Rat(total_saved, target_amount), RatInt(100))
    ELSE RatInt(0)

\* min(100.0, max(0.0, total_saved / target_amount * 100)) if target_amount > 0 else 0.0
Percent(total_saved, target_amount) ==
    IF target_amount > 0
    THEN RatMin(RatInt(100),
                RatMax(RatInt(0), RatMul(Rat(total_saved, target_amount), RatInt(100))))
    ELSE RatInt(0)

compute_progress_against_target(target) ==
    LET total_saved == SumAmount(get_all_incomes) - SumAmount(get_all_expenses)
    IN [saved |-> total_saved, percent |-> Percent(total_saved, target.target_amount)]

\* leaving the NaT rows in
keepna(df) == df

\* df.dropna(subset=['the_date'])
dropna(df) == SelectSeq(df, LAMBDA r : ~r.the_date.nat)

\* sorted(keys): ascending, as strings
sorted(keys) ==
    LET RECURSIVE Build(_)
        Build(S) ==
            IF S = {} THEN <<>>
            ELSE LET k == CHOOSE x \in S : \A y \in S : y = x \/ TextLess(x, y)
                 IN <<k>> \o Build(S \ {k})
    IN Build(keys)

\* counting every month at or above the threshold, without the break
RECURSIVE CountAll(_, _, _)
CountAll(seq, i, threshold_rate) ==
    IF i = 0 THEN 0
    ELSE (IF RatLE(RatInt(threshold_rate), seq[i][2]) THEN 1 ELSE 0)
         + CountAll(seq, i - 1, threshold_rate)

\* for m, rate in reversed(seq): count while rate >= threshold_rate, else break
RECURSIVE Walk(_, _, _)
Walk(seq, i, threshold_rate) ==
    IF i = 0 THEN 0
    ELSE IF RatLE(RatInt(threshold_rate), seq[i][2])
         THEN 1 + Walk(seq, i - 1, threshold_rate)
         ELSE 0

consecutive_saving_months(threshold_rate) ==
    IF get_all_incomes = <<>> /\ get_all_expenses = <<>>
    THEN [consecutive |-> 0, seq |-> <<>>]
    ELSE LET inc == dropna(get_all_incomes)
             exp == dropna(get_all_expenses)
             months == sorted({strftime_Ym(inc[i].the_date) : i \in 1..Len(inc)}
                              \cup {strftime_Ym(exp[i].the_date) : i \in 1..Len(exp)})
             seq == [i \in 1..Len(months) |->
                        <<months[i], monthly_summary(months[i]).saving_rate>>]
         IN [consecutive |-> Walk(seq, Len(seq), threshold_rate), seq |-> seq]

\* df['ym'] = df['the_date'].dt.to_period('M').astype(str);
\* df.groupby('ym')['amount'].sum().reset_index(): ym -> sum, for the keys present
groupby_ym_sum(df) ==
    LET ym(r) == period_str(to_period_M(r.the_date))
        keys == {ym(df[i]) : i \in 1..Len(df)}
    IN [k \in keys |-> SumAmount(SelectSeq(df, LAMBDA r : ym(r) = k))]

\* pd.merge(..., how='inner'): the keys present on both sides
merge_inner(inc_month, exp_month) ==
    {[ym |-> k, income |-> inc_month[k], expense |-> exp_month[k]] :
        k \in DOMAIN inc_month \cap DOMAIN exp_month}

\* pd.merge(inc_month, exp_month, on='ym', how='outer').fillna(0)
merge_outer(inc_month, exp_month) ==
    {[ym |-> k,
      income |-> IF k \in DOMAIN inc_month THEN inc_month[k] ELSE 0,
      expense |-> IF k \in DOMAIN exp_month THEN exp_month[k] ELSE 0] :
        k \in DOMAIN inc_month \cup DOMAIN exp_month}

\* month_df.sort_values('ym').reset_index(drop=True)
sort_values_ym(rows) ==
    LET keys == sorted({r.ym : r \in rows})
    IN [i \in 1..Len(keys) |-> CHOOSE r \in rows : r.ym = keys[i]]

prepare_monthly_df ==
    LET inc == dropna(get_all_incomes)
        exp == dropna(get_all_expenses)
    IN sort_values_ym(merge_outer(groupby_ym_sum(inc), groupby_ym_sum(exp)))

\* ---------------------------------------------------------------- simulation
Average(df) == IF df # <<>> THEN Rat(SumAmount(df), IF Len(df) > 1 THEN Len(df) ELSE 1)
               ELSE RatInt(0)

Inf == [inf |-> TRUE, val |-> RatInt(0)]

\* dividing whenever the saving is not negative
MonthsNeededNoGuard(remaining, new_monthly_saving) ==
    IF new_monthly_saving.n # 0
    THEN [inf |-> FALSE, val |-> RatDiv(RatInt(remaining), new_monthly_saving)]
    ELSE [inf |-> FALSE, val |-> RatInt(0)]

\* remaining / new_monthly_saving if new_monthly_saving > 0 else float('inf')
MonthsNeeded(remaining, new_monthly_saving) ==
    IF RatLT(RatInt(0), new_monthly_saving)
    THEN [inf |-> FALSE, val |-> RatDiv(RatInt(remaining), new_monthly_saving)]
    ELSE Inf

\* the simulation block of the page "Target & Simulasi" (src/app.py:372-390)
Simulasi(reduction) ==
    LET inc_df == get_all_incomes
        exp_df == get_all_expenses
        avg_income == Average(inc_df)
        avg_expense == Average(exp_df)
        tlist == get_targets
    IN IF tlist # <<>>
       THEN LET t0 == tlist[1]
                saved_now == SumAmount(inc_df) - SumAmount(exp_df)
                reduced_expense == RatMul(avg_expense, RatSub(RatInt(1), Rat(reduction, 100)))
                new_monthly_saving == RatMax(RatInt(0), RatSub(avg_income, reduced_expense))
                remaining == IF t0.target_amount - saved_now > 0
                             THEN t0.target_amount - saved_now ELSE 0
                months_needed == MonthsNeeded(remaining, new_monthly_saving)
            IN [shown |-> TRUE, avg_income |-> avg_income, avg_expense |-> avg_expense,
                t0 |-> t0.id, new_monthly_saving |-> new_monthly_saving,
                remaining |-> remaining, months_needed |-> months_needed,
                warning |-> (months_needed = Inf)]
       ELSE [shown |-> FALSE, avg_income |-> avg_income, avg_expense |-> avg_expense]

\* ------------------------------------------------------------------- pages
Frozen == UNCHANGED <<incomes, expenses, targets, sqlite_sequence, now, assigned, live>>

\* rejecting negative amounts only
NotPositiveMissesZero(amount) == amount < 0

\* if inc_amount <= 0: st.error(...)
NotPositive(amount) == amount <= 0

\* if tname.strip() == "" or tgt_amount <= 0: st.error(...)
TargetRejected(tname, tgt_amount) == strip(tname) = <<>> \/ NotPositive(tgt_amount)

\* "Tambah Transaksi", tab Pemasukan
income_form_v1 ==
    \E inc_amount \in IncomeAmounts, inc_source \in Sources, inc_date \in FormDates :
        IF NotPositive(inc_amount)
        THEN /\ Frozen
             /\ last' = [op |-> "income_form_v1", amount |-> inc_amount, ok |-> FALSE]
        ELSE /\ TotalInserts < MaxInserts
             /\ add_income(inc_amount, inc_source, AsDate(inc_date))
             /\ last' = [op |-> "income_form_v1", amount |-> inc_amount, ok |-> TRUE,
                         id |-> NewId("incomes")]

\* "Tambah Transaksi", tab Pengeluaran
expense_form_v1 ==
    \E exp_amount \in ExpenseAmounts, exp_category \in Categories, exp_date \in FormDates :
        IF NotPositive(exp_amount)
        THEN /\ Frozen
             /\ last' = [op |-> "expense_form_v1", amount |-> exp_amount, ok |-> FALSE]
        ELSE /\ TotalInserts < MaxInserts
             /\ add_expense(exp_amount, exp_category, "", AsDate(exp_date))
             /\ last' = [op |-> "expense_form_v1", amount |-> exp_amount, ok |-> TRUE,
                         id |-> NewId("expenses")]

\* "Target & Simulasi", the target form
target_form_v1 ==
    \E tname \in TargetNames, tgt_amount \in TargetAmounts, tgt_date \in {Date(2024, 2, 15)} :
        IF TargetRejected(tname, tgt_amount)
        THEN /\ Frozen
             /\ last' = [op |-> "target_form_v1", name |-> tname, amount |-> tgt_amount,
                         ok |-> FALSE]
        ELSE /\ TotalInserts < MaxInserts
             /\ add_target(tname, tgt_amount, AsDate(tgt_date))
             /\ last' = [op |-> "target_form_v1", name |-> tname, amount |-> tgt_amount,
                         ok |-> TRUE, id |-> NewId("targets")]

\* "Riwayat": the delete box of a table is drawn only when the table has rows
del_inc_btn ==
    /\ get_all_incomes # <<>>
    /\ \E to_del \in DeleteIds("incomes") :
        /\ IF to_del > 0 THEN delete_income(to_del) ELSE Frozen
        /\ last' = [op |-> "del_inc_btn", table |-> "incomes", id |-> to_del]

del_exp_btn ==
    /\ get_all_expenses # <<>>
    /\ \E to_del_e \in DeleteIds("expenses") :
        /\ IF to_del_e > 0 THEN delete_expense(to_del_e) ELSE Frozen
        /\ last' = [op |-> "del_exp_btn", table |-> "expenses", id |-> to_del_e]

del_target_btn ==
    /\ get_targets # <<>>
    /\ \E to_del_t \in DeleteIds("targets") :
        /\ IF to_del_t > 0 THEN delete_target(to_del_t) ELSE Frozen
        /\ last' = [op |-> "del_target_btn", table |-> "targets", id |-> to_del_t]

\* "Pengaturan": DELETE FROM each table; sqlite_sequence is not touched
reset_db_btn ==
    /\ incomes' = {}
    /\ expenses' = {}
    /\ targets' = {}
    /\ live' = [t \in Tables |-> {}]
    /\ UNCHANGED <<sqlite_sequence, now, assigned>>
    /\ last' = [op |-> "reset_db_btn"]

\* "Dashboard": totals, monthly trend, progress of every target, streak
Dashboard ==
    LET inc == get_all_incomes
        exp == get_all_expenses
        total_in == IF inc # <<>> THEN SumAmount(inc) ELSE 0
        total_out == IF exp # <<>> THEN SumAmount(exp) ELSE 0
        month_df == prepare_monthly_df
        tl == get_targets
        progress == [i \in 1..Len(tl) |->
                        [id |-> tl[i].id, res |-> compute_progress_against_target(tl[i])]]
    IN \E threshold \in Thresholds :
           LET streak == consecutive_saving_months(threshold)
           IN /\ Frozen
              /\ last' = [op |-> "Dashboard", threshold |-> threshold,
                          total_in |-> total_in, total_out |-> total_out,
                          total_saved |-> total_in - total_out,
                          month_df |-> month_df, progress |-> progress,
                          cons |-> streak.consecutive, seq |-> streak.seq]

\* "Target & Simulasi": the simulation under the slider's reduction
TargetSimulasi ==
    \E reduction \in Reductions :
        /\ Frozen
        /\ last' = [op |-> "Simulasi", reduction |-> reduction, sim |-> Simulasi(reduction)]

Init ==
    /\ incomes = {}
    /\ expenses = {}
    /\ targets = {}
    /\ sqlite_sequence = [t \in Tables |-> 0]
    /\ now = 1
    /\ assigned = [t \in Tables |-> {}]
    /\ live = [t \in Tables |-> {}]
    /\ last = [op |-> "init_db"]

Next ==
    \/ income_form_v1
    \/ expense_form_v1
    \/ target_form_v1
    \/ del_inc_btn
    \/ del_exp_btn
    \/ del_target_btn
    \/ reset_db_btn
    \/ Dashboard
    \/ TargetSimulasi

Spec == Init /\ [][Next]_vars

\* ----------------------------------------------------- the functions, called
CallAddIncome ==
    \E a \in CallIncomeArgs, source \in Sources :
        /\ TotalInserts < MaxInserts
        /\ add_income(a.amount, source, a.the_date)
        /\ last' = [op |-> "add_income", id |-> NewId("incomes")]

CallAddExpense ==
    \E a \in CallExpenseArgs, category \in Categories :
        /\ TotalInserts < MaxInserts
        /\ add_expense(a.amount, category, "", a.the_date)
        /\ last' = [op |-> "add_expense", id |-> NewId("expenses")]

CallAddTarget ==
    \E amount \in TargetAmounts :
        /\ TotalInserts < MaxInserts
        /\ add_target(<<"R", "p">>, amount, AsDate(Date(2024, 2, 15)))
        /\ last' = [op |-> "add_target", id |-> NewId("targets")]

CallDeleteTarget ==
    \E target_id \in DeleteIds("targets") :
        /\ delete_target(target_id)
        /\ last' = [op |-> "delete_target", table |-> "targets", id |-> target_id]

CallMonthlySummary ==
    \E month_year \in MonthArgs :
        /\ Frozen
        /\ last' = [op |-> "monthly_summary", month_year |-> month_year,
                    res |-> monthly_summary(month_year)]

CallComputeProgress ==
    \E i \in 1..Len(get_targets) :
        /\ Frozen
        /\ last' = [op |-> "compute_progress_against_target", target |-> get_targets[i],
                    res |-> compute_progress_against_target(get_targets[i])]

CallConsecutive ==
    \E threshold_rate \in Thresholds :
        /\ Frozen
        /\ last' = [op |-> "consecutive_saving_months", threshold |-> threshold_rate,
                    res |-> consecutive_saving_months(threshold_rate)]

CallPrepareMonthlyDf ==
    /\ Frozen
    /\ last' = [op |-> "prepare_monthly_df", res |-> prepare_monthly_df]

NextCalls ==
    \/ CallAddIncome
    \/ CallAddExpense
    \/ CallAddTarget
    \/ CallDeleteTarget
    \/ CallMonthlySummary
    \/ CallComputeProgress
    \/ CallConsecutive
    \/ CallPrepareMonthlyDf
    \/ TargetSimulasi

SpecCalls == Init /\ [][NextCalls]_vars

\* =====================================================================
\* Properties
\* =====================================================================
\* the amounts of a set of rows, added up id by id
RECURSIVE SetSum(_)
SetSum(rows) ==
    IF rows = {} THEN 0
    ELSE LET r == CHOOSE x \in rows : TRUE IN r.amount + SetSum(rows \ {r})

ListedIds(df) == {df[i].id : i \in 1..Len(df)}

\* C1: in each of the three collections the ids list_all returns are exactly
\* the ids add assigned minus those deleted since, one by one or by reset-all.
C1_ListedIdsAreLiveIds ==
    /\ ListedIds(get_all_incomes) = live["incomes"]
    /\ ListedIds(get_all_expenses) = live["expenses"]
    /\ ListedIds(get_targets) = live["targets"]
    /\ Len(get_all_incomes) = Cardinality(live["incomes"])
    /\ Len(get_all_expenses) = Cardinality(live["expenses"])
    /\ Len(get_targets) = Cardinality(live["targets"])

\* a delete has just removed one income while another one, added before or
\* after it, is still listed
C1_Witness ==
    /\ last.op = "del_inc_btn"
    /\ last.id \in assigned["incomes"] \ live["incomes"]
    /\ live["incomes"] # {}

\* C2: every stored income and expense has amount > 0, every stored target a
\* non-blank name and target_amount > 0; a form submitted with an amount <= 0
\* (or a blank target name) is rejected and changes none of the collections.
C2_StoredValid ==
    /\ \A r \in incomes : r.amount > 0
    /\ \A r \in expenses : r.amount > 0
    /\ \A r \in targets : r.target_amount > 0 /\ \E i \in 1..Len(r.name) : r.name[i] # " "

C2_BadSubmission(l) ==
    /\ l.op \in {"income_form_v1", "expense_form_v1", "target_form_v1"}
    /\ \/ l.amount <= 0
       \/ l.op = "target_form_v1" /\ \A i \in 1..Len(l.name) : l.name[i] = " "

C2_EntryValidation ==
    [][/\ C2_StoredValid /\ C2_StoredValid'
       /\ C2_BadSubmission(last') => (~last'.ok /\ UNCHANGED store)]_vars

\* a submission has just been rejected while every collection holds a record
C2_Witness ==
    /\ C2_BadSubmission(last)
    /\ ~last.ok
    /\ incomes # {} /\ expenses # {} /\ targets # {}

\* a stored date text that is a calendar date, and its month
Parseable(text) == text # NotADate
MonthOf(text) == <<text[1], text[2]>>
InBucket(rows, m) ==
    IF m = NoMonth THEN rows
    ELSE {r \in rows : Parseable(r.the_date) /\ MonthOf(r.the_date) = m}

\* r is the fraction num/den
IsQuotient(r, num, den) == r.d > 0 /\ r.n * den = num * r.d

\* C3: monthly_summary(m) returns the sums of the income and expense amounts
\* of bucket m (of all records when m is absent), saved = income - expense and
\* saving_rate = saved / income * 100 when income > 0 and 0 otherwise; a
\* negative rate is returned as it is.
C3_MonthlySummary ==
    last.op = "monthly_summary" =>
        LET m == last.month_year
            r == last.res
        IN /\ r.income = SetSum(InBucket(incomes, m))
           /\ r.expense = SetSum(InBucket(expenses, m))
           /\ r.saved = r.income - r.expense
           /\ IF r.income > 0
              THEN IsQuotient(r.saving_rate, r.saved * 100, r.income)
              ELSE r.saving_rate = RatInt(0)
           /\ (InBucket(incomes, m) = {} /\ InBucket(expenses, m) = {}) =>
                  r = [income |-> 0, expense |-> 0, saved |-> 0, saving_rate |-> RatInt(0)]

\* the summary of a bucket whose expenses exceed a positive income
C3_Witness ==
    /\ last.op = "monthly_summary"
    /\ last.month_year # NoMonth
    /\ last.res.income > 0
    /\ last.res.expense > last.res.income
    /\ last.res.saving_rate.n < 0

\* C4: compute_progress_against_target returns saved = all incomes minus all
\* expenses, whatever their dates, and a percent in [0, 100]: 0 when
\* target_amount <= 0 or saved <= 0, 100 when saved >= target_amount > 0,
\* saved / target_amount * 100 otherwise.
C4_TargetProgress ==
    last.op = "compute_progress_against_target" =>
        LET ta == last.target.target_amount
            saved == last.res.saved
            pct == last.res.percent
        IN /\ saved = SetSum(incomes) - SetSum(expenses)
           /\ pct.d > 0 /\ 0 <= pct.n /\ pct.n <= 100 * pct.d
           /\ (ta <= 0 \/ saved <= 0) => pct = RatInt(0)
           /\ (ta > 0 /\ saved >= ta) => pct = RatInt(100)
           /\ (ta > 0 /\ 0 < saved /\ saved < ta) => IsQuotient(pct, saved * 100, ta)

\* savings beyond the target amount: the percent is held at 100
C4_Witness ==
    /\ last.op = "compute_progress_against_target"
    /\ last.target.target_amount > 0
    /\ last.res.saved > last.target.target_amount
    /\ last.res.percent = RatInt(100)

\* the months in which a record of either collection falls
MonthsPresent ==
    {MonthOf(r.the_date) : r \in {x \in incomes : Parseable(x.the_date)}}
    \cup {MonthOf(r.the_date) : r \in {x \in expenses : Parseable(x.the_date)}}

\* month a is earlier than month b
Earlier(a, b) == a[1] * 12 + a[2] < b[1] * 12 + b[2]

AtLeast(rate, threshold) == rate.n >= threshold * rate.d

\* C5: consecutive_saving_months(threshold) lists the months present in either
\* collection in chronological order, each with monthly_summary's saving
\* rate, and returns the length of the longest suffix of that list whose
\* rates are all >= threshold; an empty history gives 0.
C5_Streak ==
    last.op = "consecutive_saving_months" =>
        LET seq == last.res.seq
            n == Len(seq)
            k == last.res.consecutive
        IN /\ {seq[i][1] : i \in 1..n} = MonthsPresent
           /\ \A i, j \in 1..n : i < j => Earlier(seq[i][1], seq[j][1])
           /\ \A i \in 1..n : seq[i][2] = monthly_summary(seq[i][1]).saving_rate
           /\ k \in 0..n
           /\ \A i \in (n - k + 1)..n : AtLeast(seq[i][2], last.threshold)
           /\ k < n => ~AtLeast(seq[n - k][2], last.threshold)
           /\ (incomes = {} /\ expenses = {}) => k = 0

\* three months of history, the oldest below the threshold and the two recent
\* ones at or above it: the streak is 2
C5_Witness ==
    /\ last.op = "consecutive_saving_months"
    /\ Len(last.res.seq) = 3
    /\ last.res.consecutive = 2
    /\ ~AtLeast(last.res.seq[1][2], last.threshold)

\* C6: the simulation takes the first target of the list, projected saving =
\* max(0, avg_income - avg_expense * (1 - r/100)) with the average of an empty
\* collection 0, remaining = max(0, target_amount - (incomes - expenses)),
\* months_needed = remaining / projected saving when that is > 0 and
\* "unreachable" exactly when it is 0; with no income and some expense the
\* result is "unreachable".
C6_Simulation ==
    (last.op = "Simulasi" /\ last.sim.shown) =>
        LET sim == last.sim
            r == last.reduction
            nI == IF incomes = {} THEN 1 ELSE Cardinality(incomes)
            nE == IF expenses = {} THEN 1 ELSE Cardinality(expenses)
            sI == SetSum(incomes)
            sE == SetSum(expenses)
            \* avg_income - avg_expense * (1 - r/100) = num / den
            num == sI * nE * 100 - sE * (100 - r) * nI
            den == nI * nE * 100
            t == CHOOSE x \in targets : \A y \in targets : y.created_at[1] <= x.created_at[1]
            p == sim.new_monthly_saving
            rest == t.target_amount - (sI - sE)
        IN /\ sim.t0 = t.id
           /\ IF num > 0 THEN IsQuotient(p, num, den) ELSE p = RatInt(0)
           /\ sim.remaining = (IF rest > 0 THEN rest ELSE 0)
           /\ sim.warning <=> (p = RatInt(0))
           /\ sim.warning <=> sim.months_needed.inf
           /\ ~sim.warning => /\ p.n > 0
                              /\ IsQuotient(sim.months_needed.val, sim.remaining * p.d, p.n)
           /\ (incomes = {} /\ expenses # {}) => sim.warning

\* no income record, an expense record and a target: "unreachable"
C6_Witness ==
    /\ last.op = "Simulasi"
    /\ last.sim.shown
    /\ incomes = {}
    /\ expenses # {}
    /\ last.sim.warning

DeleteOps == {"del_inc_btn", "del_exp_btn", "del_target_btn"}

\* C7: a delete removes from its collection the record with the given id and
\* nothing else, and leaves the other two collections as they are; for an id
\* no record of the collection has (0 included) nothing changes at all.
C7_DeleteStep ==
    last'.op \in DeleteOps =>
        LET id == last'.id
            before == Table(last'.table)
            after == IF last'.table = "incomes" THEN incomes'
                     ELSE IF last'.table = "expenses" THEN expenses' ELSE targets'
        IN /\ after \subseteq before
           /\ \A r \in before \ after : r.id = id
           /\ \A r \in after : r.id # id
           /\ Cardinality(before \ after) <= 1
           /\ last'.table # "incomes" => incomes' = incomes
           /\ last'.table # "expenses" => expenses' = expenses
           /\ last'.table # "targets" => targets' = targets
           /\ id \notin Ids(before) =>
                  UNCHANGED <<incomes, expenses, targets, sqlite_sequence, assigned, live>>

C7_DeleteFrame == [][C7_DeleteStep]_vars

\* an id that is not (or no longer) in the table has just been deleted from a
\* table that holds other records
C7_Witness ==
    /\ last.op = "del_exp_btn"
    /\ last.id > 0
    /\ last.id \notin assigned["expenses"]
    /\ expenses # {}
    /\ incomes # {}

Good(rows) == {r \in rows : Parseable(r.the_date)}

RECURSIVE ColumnSum(_, _)
ColumnSum(df, col) == IF df = <<>> THEN 0 ELSE Head(df)[col] + ColumnSum(Tail(df), col)

\* C8: a record whose date cannot be parsed is left out of every bucketed
\* aggregation (monthly_summary(m) for a bucket m, the monthly series, the
\* streak's months) and counted in the totals taken without a bucket
\* (monthly_summary(), the saved amount of the progress, the simulation's sums).
C8_UnparseableDates ==
    /\ (last.op = "monthly_summary" /\ last.month_year # NoMonth) =>
           /\ last.res.income = SetSum({r \in Good(incomes) : MonthOf(r.the_date) = last.month_year})
           /\ last.res.expense = SetSum({r \in Good(expenses) : MonthOf(r.the_date) = last.month_year})
    /\ last.op = "prepare_monthly_df" =>
           /\ ColumnSum(last.res, "income") = SetSum(Good(incomes))
           /\ ColumnSum(last.res, "expense") = SetSum(Good(expenses))
           /\ Len(last.res) = Cardinality(MonthsPresent)
    /\ last.op = "consecutive_saving_months" =>
           {last.res.seq[i][1] : i \in 1..Len(last.res.seq)} = MonthsPresent
    /\ (last.op = "monthly_summary" /\ last.month_year = NoMonth) =>
           /\ last.res.income = SetSum(incomes)
           /\ last.res.expense = SetSum(expenses)
    /\ last.op = "compute_progress_against_target" =>
           last.res.saved = SetSum(incomes) - SetSum(expenses)
    /\ last.op = "Simulasi" =>
           /\ last.sim.avg_income.n * Cardinality(incomes) = SetSum(incomes) * last.sim.avg_income.d
           /\ last.sim.avg_expense.n * Cardinality(expenses) = SetSum(expenses) * last.sim.avg_expense.d

\* the monthly series of a store that holds an income without a date next to
\* dated records
C8_Witness ==
    /\ last.op = "prepare_monthly_df"
    /\ incomes \ Good(incomes) # {}
    /\ Good(incomes) # {}
    /\ last.res # <<>>

\* C9: prepare_monthly_df has exactly one row for each month in which a record
\* with a parseable date falls, holding that month's income sum and expense
\* sum (0 on a side without records), in strictly ascending month order.
C9_MonthlySeries ==
    last.op = "prepare_monthly_df" =>
        LET df == last.res
        IN /\ {df[i].ym : i \in 1..Len(df)} = MonthsPresent
           /\ \A i, j \in 1..Len(df) : i < j => Earlier(df[i].ym, df[j].ym)
           /\ \A i \in 1..Len(df) :
                  /\ df[i].income = SetSum({r \in Good(incomes) : MonthOf(r.the_date) = df[i].ym})
                  /\ df[i].expense = SetSum({r \in Good(expenses) : MonthOf(r.the_date) = df[i].ym})

\* two months, the earlier with income only, the later with expense only
C9_Witness ==
    /\ last.op = "prepare_monthly_df"
    /\ Len(last.res) = 2
    /\ last.res[1].income > 0 /\ last.res[1].expense = 0
    /\ last.res[2].income = 0 /\ last.res[2].expense > 0

UniqueIds(rows) == \A r1, r2 \in rows : r1.id = r2.id => r1 = r2

AddOps == {"income_form_v1", "expense_form_v1", "target_form_v1"}
TableOfForm(op) == IF op = "income_form_v1" THEN "incomes"
                   ELSE IF op = "expense_form_v1" THEN "expenses" ELSE "targets"

\* C10: ids are unique within each collection, and the id an add assigns is
\* greater than every id assigned in that collection before, also after
\* deletes and after reset-all.
C10_AddStep ==
    /\ UniqueIds(incomes') /\ UniqueIds(expenses') /\ UniqueIds(targets')
    /\ (last'.op \in AddOps /\ last'.ok) =>
           LET t == TableOfForm(last'.op)
               new == IF t = "incomes" THEN incomes' \ incomes
                      ELSE IF t = "expenses" THEN expenses' \ expenses
                      ELSE targets' \ targets
           IN /\ Cardinality(new) = 1
              /\ \A r \in new : r.id = last'.id /\ \A j \in assigned[t] : r.id > j

C10_IdsIncrease == [][C10_AddStep]_vars

\* an income added to a table emptied after two earlier incomes, the other
\* tables emptied as well: it gets id 3
C10_Witness ==
    /\ last.op = "income_form_v1"
    /\ last.ok
    /\ last.id = 3
    /\ Ids(incomes) = {3}
    /\ expenses = {} /\ targets = {}

SeqMonths(seq) == {seq[i][1] : i \in 1..Len(seq)}
SeriesMonths(df) == {df[i].ym : i \in 1..Len(df)}

\* the rows of a monthly series agree with monthly_summary of their month
SeriesAgrees(df) ==
    \A i \in 1..Len(df) :
        /\ df[i].income = monthly_summary(df[i].ym).income
        /\ df[i].expense = monthly_summary(df[i].ym).expense

\* C11: the two bucketing paths agree on every store content: the months of
\* the streak's sequence (strftime('%Y-%m')) are the months of the monthly
\* series (to_period('M')), and each row of the series holds the income and
\* the expense monthly_summary returns for its month.
C11_BucketingPathsAgree ==
    /\ last.op = "prepare_monthly_df" =>
           /\ \A th \in Thresholds :
                  SeqMonths(consecutive_saving_months(th).seq) = SeriesMonths(last.res)
           /\ SeriesAgrees(last.res)
    /\ last.op = "consecutive_saving_months" =>
           /\ SeqMonths(last.res.seq) = SeriesMonths(prepare_monthly_df)
           /\ Len(last.res.seq) = Len(prepare_monthly_df)
           /\ SeriesAgrees(prepare_monthly_df)

\* a series of two months over the year boundary, computed from a store that
\* also holds a record whose date is no date
C11_Witness ==
    /\ last.op = "prepare_monthly_df"
    /\ Len(last.res) = 2
    /\ last.res[1].ym[1] < last.res[2].ym[1]
    /\ \E r \in incomes \cup expenses : ~Parseable(r.the_date)
    /\ SeqMonths(consecutive_saving_months(10).seq) = SeriesMonths(last.res)

====
